---------------------------- MODULE Spec2Model ----------------------------
(***************************************************************************)
(* A model of scripts/release/relnotes.py, the release-note generator.     *)
(*                                                                         *)
(* Text is modelled character by character: a string is a tuple of         *)
(* one-character strings, a commit message is a tuple of such lines.       *)
(* Each function of the script has its own variables and its own           *)
(* specification (SpecExtract, SpecFallback, SpecWalk, SpecDedup,          *)
(* SpecCategorize, SpecAuthors, SpecMain); the variables of the functions  *)
(* a specification does not run stay at their idle values.                 *)
(***************************************************************************)
EXTENDS Integers, Sequences, FiniteSets, TLC

\* extract_relnotes
VARIABLES commit_message_lines, is_major_release, relnote, epc

extractVars == <<commit_message_lines, is_major_release, relnote, epc>>

\* get_relnotes_between; note_commits and visited_rolled_back are history
\* variables: the commit each note of relnotes came from, and the commits whose id
\* was in rolled_back_commits when the loop reached them
VARIABLES commits, messages, is_major, commit_index, relnotes, rolled_back_commits,
          wpc, note_commits, visited_rolled_back

walkVars == <<commits, messages, is_major, commit_index, relnotes, rolled_back_commits,
              wpc, note_commits, visited_rolled_back>>

\* the deduplication and the flat report of __main__
VARIABLES cur_release_relnotes, last_release_relnotes, filtered_relnotes, printed, dpc

dedupVars == <<cur_release_relnotes, last_release_relnotes, filtered_relnotes, printed, dpc>>

\* get_categorized_relnotes; label_requests is the list of issue ids get_label was
\* called with
VARIABLES filtered_notes, note_index, categorized_relnotes, label_requests, categorized,
          cpc

categorizeVars == <<filtered_notes, note_index, categorized_relnotes, label_requests,
                    categorized, cpc>>

\* get_external_authors_between; range_authors and range_coauthors are the people
\* git's two listings were written from
VARIABLES range_authors, range_coauthors, author_log, trailer_log, authors, coauthors,
          sorted_names, external_authors, apc

authorVars == <<range_authors, range_coauthors, author_log, trailer_log, authors,
                coauthors, sorted_names, external_authors, apc>>

\* __main__; stdout is the list of lines printed, exit_status the status the
\* process ended with
VARIABLES head_ref, describe, repo_tags, current_release, is_major_main, tags,
          last_release, stdout, exit_status, mpc

mainVars == <<head_ref, describe, repo_tags, current_release, is_major_main, tags,
              last_release, stdout, exit_status, mpc>>

vars == <<extractVars, walkVars, dedupVars, categorizeVars, authorVars, mainVars>>

\* what each function leaves alone
notExtract == <<walkVars, dedupVars, categorizeVars, authorVars, mainVars>>

notWalk == <<extractVars, dedupVars, categorizeVars, authorVars, mainVars>>

notDedup == <<extractVars, walkVars, categorizeVars, authorVars, mainVars>>

notCategorize == <<extractVars, walkVars, dedupVars, authorVars, mainVars>>

notAuthors == <<extractVars, walkVars, dedupVars, categorizeVars, mainVars>>

notMain == <<extractVars, walkVars, dedupVars, categorizeVars, authorVars>>

----------------------------------------------------------------------------
(* Python values that are not strings *)

None == <<"<None>">>

IndexError == <<"<IndexError>">>

NoMatch == [len |-> 0, group |-> None]

----------------------------------------------------------------------------
(* str methods *)

Whitespace == {" "}

Digits == {"0", "1", "2", "3", "4", "5", "6", "7", "8", "9"}

At(s, i) == IF i \in 1..Len(s) THEN s[i] ELSE "<end>"

RECURSIVE LStrip(_)
LStrip(s) == IF s # <<>> /\ Head(s) \in Whitespace THEN LStrip(Tail(s)) ELSE s

RECURSIVE RStripChars(_, _)
RStripChars(s, cs) ==
  IF s # <<>> /\ s[Len(s)] \in cs THEN RStripChars(SubSeq(s, 1, Len(s) - 1), cs) ELSE s

RStrip(s) == RStripChars(s, Whitespace)

Strip(s) == RStrip(LStrip(s))

StartsWith(s, p) == Len(s) >= Len(p) /\ SubSeq(s, 1, Len(p)) = p

EndsWith(s, p) == Len(s) >= Len(p) /\ SubSeq(s, Len(s) - Len(p) + 1, Len(s)) = p

Drop(s, n) == SubSeq(s, n + 1, Len(s))

Upper == <<"A", "B", "C", "D", "E", "F", "G", "H", "I", "J", "K", "L", "M", "N", "O", "P", "Q", "R", "S", "T", "U", "V", "W", "X", "Y", "Z">>

LowerLetters == <<"a", "b", "c", "d", "e", "f", "g", "h", "i", "j", "k", "l", "m", "n", "o", "p", "q", "r", "s", "t", "u", "v", "w", "x", "y", "z">>

LowerChar(c) ==
  IF \E i \in 1..Len(Upper) : Upper[i] = c
  THEN LowerLetters[CHOOSE i \in 1..Len(Upper) : Upper[i] = c]
  ELSE c

Lower(s) == [i \in 1..Len(s) |-> LowerChar(s[i])]

\* str.split(): the maximal runs of non-whitespace characters
RECURSIVE SplitFrom(_, _, _)
SplitFrom(s, i, word) ==
  IF i > Len(s) THEN (IF word = <<>> THEN <<>> ELSE <<word>>)
  ELSE IF s[i] \in Whitespace
       THEN (IF word = <<>> THEN <<>> ELSE <<word>>) \o SplitFrom(s, i + 1, <<>>)
       ELSE SplitFrom(s, i + 1, Append(word, s[i]))

Split(s) == SplitFrom(s, 1, <<>>)

\* sep.join(parts)
RECURSIVE Join(_, _)
Join(parts, sep) ==
  IF parts = <<>> THEN <<>>
  ELSE IF Len(parts) = 1 THEN parts[1]
  ELSE parts[1] \o sep \o Join(Tail(parts), sep)

\* the characters of the model in code point order, and the order of strings
CodePoints ==
  <<" ", "#", "(", ")", "*", "+", ",", "-", ".", "/", "0", "1", "2", "3", "4", "5", "6", "7", "8", "9", ":", "<", ">", "@", "A", "B", "C", "D", "E", "F", "G", "H", "I", "J", "K", "L", "M", "N", "O", "P", "Q", "R", "S", "T", "U", "V", "W", "X", "Y", "Z", "[", "]", "a", "b", "c", "d", "e", "f", "g", "h", "i", "j", "k", "l", "m", "n", "o", "p", "q", "r", "s", "t", "u", "v", "w", "x", "y", "z", "|">>

CodePoint(c) == CHOOSE i \in 1..Len(CodePoints) : CodePoints[i] = c

StrLess(a, b) ==
  \E k \in 1..Len(b) :
    /\ k <= Len(a) + 1
    /\ SubSeq(a, 1, k - 1) = SubSeq(b, 1, k - 1)
    /\ k = Len(a) + 1 \/ CodePoint(a[k]) < CodePoint(b[k])

\* "p in s"
Contains(s, p) == \E i \in 1..(Len(s) - Len(p) + 1) : SubSeq(s, i, i + Len(p) - 1) = p

\* re.sub(p, "", s) for a literal p
RECURSIVE RemoveAll(_, _)
RemoveAll(s, p) ==
  IF s = <<>> THEN <<>>
  ELSE IF StartsWith(s, p) THEN RemoveAll(Drop(s, Len(p)), p)
  ELSE <<Head(s)>> \o RemoveAll(Tail(s), p)

Range(s) == {s[i] : i \in 1..Len(s)}

RECURSIVE DigitRun(_, _)
DigitRun(s, i) == IF At(s, i) \in Digits THEN 1 + DigitRun(s, i + 1) ELSE 0

----------------------------------------------------------------------------
(* extract_relnotes *)

RELNOTES == <<"R", "E", "L", "N", "O", "T", "E", "S">>

PIPER_ORIGIN == <<"P", "i", "p", "e", "r", "O", "r", "i", "g", "i", "n", "-", "R", "e", "v", "I", "d", ":">>

INCOMPATIBLE == <<"*", "*", "[", "I", "n", "c", "o", "m", "p", "a", "t", "i", "b", "l", "e", "]", "*", "*", " ">>

\* line 34: an empty line or a provenance line ends the block
EndsRelnoteMutant(line) == line = <<>>

EndsRelnote(line) == line = <<>> \/ StartsWith(line, PIPER_ORIGIN)

\* line 36: re.match(r"^RELNOTES(?:\[(INC|NEW)\])?:", line); len is len(m[0]),
\* group is m[1]
RelnotesMatchMutant(line) ==
  IF StartsWith(line, RELNOTES \o <<":">>) THEN [len |-> 9, group |-> None]
  ELSE IF StartsWith(line, RELNOTES \o <<"[", "I", "N", "C", "]", ":">>) THEN [len |-> 14, group |-> "NEW"]
  ELSE IF StartsWith(line, RELNOTES \o <<"[", "N", "E", "W", "]", ":">>) THEN [len |-> 14, group |-> "INC"]
  ELSE NoMatch

RelnotesMatch(line) ==
  IF StartsWith(line, RELNOTES \o <<":">>) THEN [len |-> 9, group |-> None]
  ELSE IF StartsWith(line, RELNOTES \o <<"[", "I", "N", "C", "]", ":">>) THEN [len |-> 14, group |-> "INC"]
  ELSE IF StartsWith(line, RELNOTES \o <<"[", "N", "E", "W", "]", ":">>) THEN [len |-> 14, group |-> "NEW"]
  ELSE NoMatch

\* lines 33-44: the loop over the message; the result is relnote_lines
RECURSIVE ScanLines(_, _, _, _)
ScanLines(lines, i, in_relnote, relnote_lines) ==
  IF i > Len(lines) THEN relnote_lines
  ELSE LET m == RelnotesMatch(lines[i])
           in1 == IF EndsRelnote(lines[i]) THEN FALSE ELSE in_relnote
           in2 == IF m # NoMatch THEN TRUE ELSE in1
           rest == IF m # NoMatch THEN Drop(lines[i], m.len) ELSE lines[i]
           marked == IF m # NoMatch /\ m.group = "INC"
                     THEN INCOMPATIBLE \o Strip(rest) ELSE rest
           line == Strip(marked)
       IN ScanLines(lines, i + 1, in2,
                    IF in2 /\ line # <<>> THEN Append(relnote_lines, line)
                    ELSE relnote_lines)

\* line 45
RelnoteText(lines) == Join(ScanLines(lines, 1, FALSE, <<>>), <<" ">>)

\* lines 46-47
IsSentinel(text) ==
  LET relnote_lower == RStripChars(Lower(Strip(text)), {"."})
  IN relnote_lower = <<"n", "/", "a">> \/ relnote_lower = <<"n", "o", "n", "e">> \/ relnote_lower = <<>>

\* length of the match of \[\d+\.\d+\.\d\]\s? at position i of s, 0 if none
VersionMatchLen(s, i) ==
  LET d1 == DigitRun(s, i + 1)
      j == i + 1 + d1
      d2 == DigitRun(s, j + 1)
      k == j + 1 + d2
  IN IF /\ At(s, i) = "["
        /\ d1 >= 1 /\ At(s, j) = "."
        /\ d2 >= 1 /\ At(s, k) = "."
        /\ At(s, k + 1) \in Digits
        /\ At(s, k + 2) = "]"
     THEN (k + 3 - i) + (IF At(s, k + 3) \in Whitespace THEN 1 ELSE 0)
     ELSE 0

\* re.sub(r"\[\d+\.\d+\.\d\]\s?", "", s): every match, left to right
RECURSIVE SubVersion(_, _)
SubVersion(s, i) ==
  IF i > Len(s) THEN <<>>
  ELSE LET n == VersionMatchLen(s, i)
       IN IF n > 0 THEN SubVersion(s, i + n) ELSE <<s[i]>> \o SubVersion(s, i + 1)

\* re.search(r"\(\#[0-9]+\)$", token): the matched text, or None
IssueId(token) ==
  LET n == Len(token)
      digits == CHOOSE d \in 0..n :
                  /\ \A x \in 1..d : At(token, n - x) \in Digits
                  /\ At(token, n - d - 1) \notin Digits
  IN IF /\ n >= 4 /\ token[n] = ")" /\ digits >= 1
        /\ At(token, n - digits - 1) = "#" /\ At(token, n - digits - 2) = "("
     THEN SubSeq(token, n - digits - 2, n)
     ELSE None

\* lines 29-60
extract_relnotes(lines, major) ==
  LET text == RelnoteText(lines)
      subject == Strip(lines[1])
  IN IF IsSentinel(text)
     THEN IF major THEN None ELSE SubVersion(subject, 1)
     ELSE IF Split(subject) = <<>> THEN IndexError
          ELSE LET tokens == Split(subject)
                   issue_id == IssueId(tokens[Len(tokens)])
               IN IF issue_id # None THEN text \o <<" ">> \o Strip(issue_id) ELSE text

----------------------------------------------------------------------------
(* What git hands to extract_relnotes: git() strips the output of           *)
(* "git show -s <commit> --pretty=format:%B" and splits it at line breaks,  *)
(* so the first line does not start and the last line does not end with    *)
(* whitespace, and only the empty message has an empty first line.          *)

MaxBody == 4

MaxSentinelBody == 2

GitLines(lines) ==
  \/ lines = << <<>> >>
  \/ /\ lines # <<>>
     /\ lines[1] # <<>> /\ lines[1] = Strip(lines[1])
     /\ lines[Len(lines)] # <<>> /\ lines[Len(lines)] = RStrip(lines[Len(lines)])

RECURSIVE SeqsUpTo(_, _)
SeqsUpTo(S, n) ==
  IF n = 0 THEN {<<>>}
  ELSE LET shorter == SeqsUpTo(S, n - 1)
       IN shorter \cup {Append(s, x) : s \in {t \in shorter : Len(t) = n - 1}, x \in S}

Subjects == {<<"F", "i", "x">>, <<"F", "i", "x", " ", "(", "#", "1", "2", ")">>, <<"R", "E", "L", "N", "O", "T", "E", "S", ":", " ", "U", "p", " ", "(", "#", "3", ")">>}

BodyLines ==
  {<<>>, <<" ">>, <<"m", "o", "r", "e">>, <<"R", "E", "L", "N", "O", "T", "E", "S", ":", " ", "F", "o", "o", ".">>, <<"R", "E", "L", "N", "O", "T", "E", "S", "[", "I", "N", "C", "]", ":", " ", "B", "a", "r">>, <<"R", "E", "L", "N", "O", "T", "E", "S", "[", "N", "E", "W", "]", ":">>,
   <<"R", "E", "L", "N", "O", "T", "E", "S", ":", " ", "N", "o", "n", "e", ".">>, <<"P", "i", "p", "e", "r", "O", "r", "i", "g", "i", "n", "-", "R", "e", "v", "I", "d", ":", " ", "1">>}

Messages ==
  {m \in {<<s>> \o b : s \in Subjects \cup {<<>>}, b \in SeqsUpTo(BodyLines, MaxBody)} :
     GitLines(m)}

FallbackSubjects ==
  {<<"F", "i", "x">>, <<"[", "1", ".", "2", ".", "3", "]", " ", "F", "i", "x">>, <<"[", "1", ".", "2", ".", "1", "0", "]", " ", "F", "i", "x">>, <<"[", "1", "0", ".", "2", ".", "3", "]", " ", " ", "F", "i", "x">>, <<"F", "i", "x", " ", "[", "1", ".", "2", ".", "3", "]", " ", "i", "t">>,
   <<"[", "1", ".", "2", ".", "3", "]">>, <<"F", "i", "x", " ", "(", "#", "1", "2", ")">>, <<"[", "1", ".", "2", "3", "]", " ", "F", "i", "x">>}

SentinelLines ==
  {<<>>, <<"m", "o", "r", "e">>, <<"R", "E", "L", "N", "O", "T", "E", "S", ":", " ", "N", "o", "n", "e", ".">>, <<"R", "E", "L", "N", "O", "T", "E", "S", ":", "n", "/", "a">>, <<"R", "E", "L", "N", "O", "T", "E", "S", ":", " ">>, <<"R", "E", "L", "N", "O", "T", "E", "S", ":", " ", "N", "/", "A", ".", ".">>,
   <<"R", "E", "L", "N", "O", "T", "E", "S", "[", "N", "E", "W", "]", ":", " ", "n", "o", "n", "e">>, <<"R", "E", "L", "N", "O", "T", "E", "S", ":", " ", "n", "o">>, <<"R", "E", "L", "N", "O", "T", "E", "S", "[", "I", "N", "C", "]", ":", " ", "N", "o", "n", "e">>}

FallbackMessages ==
  {m \in {<<s>> \o b : s \in FallbackSubjects \cup {<<>>},
                       b \in SeqsUpTo(SentinelLines, MaxSentinelBody)} :
     GitLines(m)}

ExtractIdle ==
  /\ commit_message_lines = <<>>
  /\ is_major_release = FALSE
  /\ relnote = None
  /\ epc = "idle"

Extract ==
  /\ epc = "call"
  /\ relnote' = extract_relnotes(commit_message_lines, is_major_release)
  /\ epc' = "return"
  /\ UNCHANGED <<commit_message_lines, is_major_release, notExtract>>

----------------------------------------------------------------------------
(* Claims about extract_relnotes *)

IsPlainMarker(line) == StartsWith(line, <<"R", "E", "L", "N", "O", "T", "E", "S", ":">>)

IsIncMarker(line) == StartsWith(line, <<"R", "E", "L", "N", "O", "T", "E", "S", "[", "I", "N", "C", "]", ":">>)

IsMarker(line) ==
  IsPlainMarker(line) \/ IsIncMarker(line) \/ StartsWith(line, <<"R", "E", "L", "N", "O", "T", "E", "S", "[", "N", "E", "W", "]", ":">>)

MarkerLines(lines) == {i \in 1..Len(lines) : IsMarker(lines[i])}

Min(set) == CHOOSE x \in set : \A y \in set : x <= y

\* The subject line with a leading [x.y.z] marker, and one blank after it, removed.
WithoutLeadingVersion(subject) ==
  LET s == Strip(subject)
      d1 == DigitRun(s, 2)
      d2 == DigitRun(s, 3 + d1)
      d3 == DigitRun(s, 4 + d1 + d2)
      close == 4 + d1 + d2 + d3
  IN IF /\ At(s, 1) = "[" /\ d1 >= 1 /\ At(s, 2 + d1) = "." /\ d2 >= 1
        /\ At(s, 3 + d1 + d2) = "." /\ d3 >= 1 /\ At(s, close) = "]"
     THEN Drop(s, IF At(s, close + 1) \in Whitespace THEN close + 1 ELSE close)
     ELSE s

\* C3: when the captured relnote text is 'n/a', 'none' or empty after trimming,
\* lower-casing and dropping a trailing period, extract_relnotes returns None in a
\* major release, and otherwise the first line with its leading '[x.y.z]' version
\* marker removed.
C3_SentinelFallback ==
  (epc = "return" /\ IsSentinel(RelnoteText(commit_message_lines))) =>
    relnote = IF is_major_release THEN None
              ELSE WithoutLeadingVersion(commit_message_lines[1])

\* The first 'RELNOTES:' line, the line that ends its block (the first empty or
\* PiperOrigin-RevId: line after it), and the block's trimmed non-blank lines
\* joined by single spaces.
FirstPlainMarker(lines) == Min({i \in 1..Len(lines) : IsPlainMarker(lines[i])})

BlockEnd(lines, i) ==
  Min({j \in (i + 1)..Len(lines) :
         lines[j] = <<>> \/ StartsWith(lines[j], <<"P", "i", "p", "e", "r", "O", "r", "i", "g", "i", "n", "-", "R", "e", "v", "I", "d", ":">>)})

BlockText(lines, i) ==
  LET block == [k \in 1..(BlockEnd(lines, i) - i) |->
                  Strip(IF k = 1 THEN Drop(lines[i], 9) ELSE lines[i + k - 1])]
  IN Join(SelectSeq(block, LAMBDA l : l # <<>>), <<" ">>)

HasPlainBlock(lines) ==
  \E i \in 1..Len(lines) :
    IsPlainMarker(lines[i]) /\ \E j \in (i + 1)..Len(lines) : lines[j] = <<>>

\* The issue reference '(#<digits>)' the subject line ends with, or None.
IssueRefOf(subject) ==
  LET s == Strip(subject)
      refs == {n \in 4..Len(s) :
                 /\ s[Len(s) - n + 1] = "(" /\ s[Len(s) - n + 2] = "#" /\ s[Len(s)] = ")"
                 /\ \A k \in (Len(s) - n + 3)..(Len(s) - 1) : s[k] \in Digits}
  IN IF refs = {} THEN None ELSE SubSeq(s, Len(s) - Min(refs) + 1, Len(s))

\* C4 as stated: for any commit message containing a 'RELNOTES:' block followed by
\* a blank line, the returned note equals the block's non-blank lines (the marker
\* stripped from the first one) joined by single spaces.
C4_BlockJoined ==
  (epc = "return" /\ HasPlainBlock(commit_message_lines)) =>
    relnote = BlockText(commit_message_lines, FirstPlainMarker(commit_message_lines))

C4_Covered ==
  /\ epc = "return"
  /\ HasPlainBlock(commit_message_lines)
  /\ Cardinality(MarkerLines(commit_message_lines)) = 1
  /\ ~IsSentinel(BlockText(commit_message_lines, FirstPlainMarker(commit_message_lines)))

\* C4 as amended: for any commit message as git prints it (the first line is not
\* blank unless the message is empty) whose only RELNOTES marker line is a
\* 'RELNOTES:' line followed, somewhere after it, by an empty line, and whose block
\* text is not 'n/a', 'none' or empty, the returned note equals the block's trimmed
\* non-blank lines (the marker stripped from the first one) joined by single spaces,
\* followed by ' (#<digits>)' when the subject line ends with that issue reference;
\* lines after the empty line or after a 'PiperOrigin-RevId:' line are not part of it.
C4_SingleBlockJoined ==
  C4_Covered =>
    LET text == BlockText(commit_message_lines, FirstPlainMarker(commit_message_lines))
        ref == IssueRefOf(commit_message_lines[1])
    IN relnote = IF ref = None THEN text ELSE text \o <<" ">> \o ref

\* A block of two captured lines, ended by an empty line that more text follows.
C4_Witness ==
  /\ C4_Covered
  /\ LET i == FirstPlainMarker(commit_message_lines)
         e == BlockEnd(commit_message_lines, i)
     IN /\ e = i + 2
        /\ commit_message_lines[e] = <<>>
        /\ Strip(commit_message_lines[i + 1]) # <<>>
        /\ Strip(commit_message_lines[e + 1]) # <<>>
        /\ relnote = BlockText(commit_message_lines, i)

MARKER_TEXT == <<"*", "*", "[", "I", "n", "c", "o", "m", "p", "a", "t", "i", "b", "l", "e", "]", "*", "*">>

\* C5 as stated: for any commit message containing a 'RELNOTES[INC]:' line, the
\* returned note begins with the incompatibility marker.
C5_IncompatibleFirst ==
  (epc = "return" /\ \E i \in 1..Len(commit_message_lines) :
                        IsIncMarker(commit_message_lines[i])) =>
    (relnote # None /\ StartsWith(relnote, MARKER_TEXT))

C5_Covered ==
  /\ epc = "return"
  /\ MarkerLines(commit_message_lines) # {}
  /\ IsIncMarker(commit_message_lines[Min(MarkerLines(commit_message_lines))])

\* C5 as amended: for any commit message as git prints it (the first line is not
\* blank unless the message is empty) whose first RELNOTES marker line is a
\* 'RELNOTES[INC]:' line, the returned note begins with '**[Incompatible]**',
\* followed by a space when the note goes on.
C5_FirstMarkerInc ==
  C5_Covered =>
    /\ relnote # None
    /\ StartsWith(relnote, MARKER_TEXT)
    /\ Len(relnote) > Len(MARKER_TEXT) => relnote[Len(MARKER_TEXT) + 1] = " "

\* A RELNOTES[INC]: line first, a plain RELNOTES: line after it.
C5_Witness ==
  /\ C5_Covered
  /\ Cardinality(MarkerLines(commit_message_lines)) >= 2
  /\ StartsWith(relnote, INCOMPATIBLE)

----------------------------------------------------------------------------
(* get_relnotes_between *)

HexDigits == Digits \cup {"a", "b", "c", "d", "e", "f", "A", "B", "C", "D", "E", "F"}

RECURSIVE HexRun(_, _)
HexRun(s, i) == IF At(s, i) \in HexDigits THEN 1 + HexRun(s, i + 1) ELSE 0

ROLLBACK_OF == <<"A", "u", "t", "o", "m", "a", "t", "e", "d", " ", "r", "o", "l", "l", "b", "a", "c", "k", " ", "o", "f", " ", "c", "o", "m", "m", "i", "t", " ">>

\* line 76: re.match(r"^Automated rollback of commit ([\dA-Fa-f]+)", line); the
\* result is m[1], or None
RollbackMatchMutant(line) ==
  IF StartsWith(line, ROLLBACK_OF) /\ HexRun(line, Len(ROLLBACK_OF) + 1) >= 1
  THEN SubSeq(line, Len(ROLLBACK_OF) + 1, Len(ROLLBACK_OF) + 1)
  ELSE None

RollbackMatch(line) ==
  IF StartsWith(line, ROLLBACK_OF) /\ HexRun(line, Len(ROLLBACK_OF) + 1) >= 1
  THEN SubSeq(line, Len(ROLLBACK_OF) + 1,
              Len(ROLLBACK_OF) + HexRun(line, Len(ROLLBACK_OF) + 1))
  ELSE None

\* line 73
IsRolledBackMutant(commit, rolled_back) == FALSE

IsRolledBack(commit, rolled_back) == commit \in rolled_back

MaxCommits == 3

\* The commits of the repository, newest first; rev-list returns the first few.
CommitIds == <<<<"a", "1">>, <<"b", "2">>, <<"c", "3">>, <<"d", "4">>, <<"e", "5">>, <<"f", "6">>>>

KnownCommits == {CommitIds[i] : i \in 1..(MaxCommits + 1)}

WalkMessages ==
  {<<ROLLBACK_OF \o id \o <<".">>, <<"R", "E", "L", "N", "O", "T", "E", "S", ":", " ", "U", "n", "d", "o">>>> : id \in KnownCommits}
  \cup {<<<<"F", "i", "x">>>>, <<<<"A", "d", "d">>, <<"R", "E", "L", "N", "O", "T", "E", "S", ":", " ", "F", "o", "o">>>>, <<<<"T", "i", "d", "y">>, <<"R", "E", "L", "N", "O", "T", "E", "S", ":", " ", "N", "o", "n", "e">>>>}

\* git("rev-list", ...): the ids as lines, one empty line when there is none
RevList(n) == IF n = 0 THEN << <<>> >> ELSE SubSeq(CommitIds, 1, n)

WalkIdle ==
  /\ commits = <<>>
  /\ messages = <<>>
  /\ is_major = FALSE
  /\ commit_index = 0
  /\ relnotes = <<>>
  /\ rolled_back_commits = {}
  /\ wpc = "idle"
  /\ note_commits = <<>>
  /\ visited_rolled_back = {}

InitWalk ==
  /\ \E n \in 0..MaxCommits :
       /\ commits = RevList(n)
       /\ messages \in [{CommitIds[i] : i \in 1..n} -> WalkMessages]
  /\ is_major \in BOOLEAN
  /\ commit_index = 0
  /\ relnotes = <<>>
  /\ rolled_back_commits = {}
  /\ wpc = "start"
  /\ note_commits = <<>>
  /\ visited_rolled_back = {}

walkInputs == <<commits, messages, is_major>>

\* lines 66-67
ReturnEmpty ==
  /\ wpc = "start"
  /\ commits = << <<>> >>
  /\ wpc' = "done"
  /\ UNCHANGED <<walkInputs, commit_index, relnotes, rolled_back_commits, note_commits,
                 visited_rolled_back, notWalk>>

\* lines 68-72
StartWalk ==
  /\ wpc = "start"
  /\ commits # << <<>> >>
  /\ relnotes' = <<>>
  /\ rolled_back_commits' = {}
  /\ commit_index' = 1
  /\ wpc' = "loop"
  /\ UNCHANGED <<walkInputs, note_commits, visited_rolled_back, notWalk>>

AtCommit == wpc = "loop" /\ commit_index <= Len(commits)

Visit ==
  /\ commit_index' = commit_index + 1
  /\ visited_rolled_back' =
       IF commits[commit_index] \in rolled_back_commits
       THEN visited_rolled_back \cup {commits[commit_index]}
       ELSE visited_rolled_back
  /\ UNCHANGED <<walkInputs, wpc, notWalk>>

\* lines 73-74
SkipRolledBack ==
  /\ AtCommit
  /\ IsRolledBack(commits[commit_index], rolled_back_commits)
  /\ Visit
  /\ UNCHANGED <<relnotes, rolled_back_commits, note_commits>>

\* lines 75-80
RecordRollback ==
  /\ AtCommit
  /\ ~IsRolledBack(commits[commit_index], rolled_back_commits)
  /\ RollbackMatch(messages[commits[commit_index]][1]) # None
  /\ rolled_back_commits' =
       rolled_back_commits \cup {RollbackMatch(messages[commits[commit_index]][1])}
  /\ Visit
  /\ UNCHANGED <<relnotes, note_commits>>

\* lines 81-83, a note is returned
AppendNote ==
  /\ AtCommit
  /\ ~IsRolledBack(commits[commit_index], rolled_back_commits)
  /\ RollbackMatch(messages[commits[commit_index]][1]) = None
  /\ extract_relnotes(messages[commits[commit_index]], is_major) # None
  /\ relnotes' = Append(relnotes, extract_relnotes(messages[commits[commit_index]], is_major))
  /\ note_commits' = Append(note_commits, commits[commit_index])
  /\ Visit
  /\ UNCHANGED rolled_back_commits

\* lines 81-82, extract_relnotes returns None
NoNote ==
  /\ AtCommit
  /\ ~IsRolledBack(commits[commit_index], rolled_back_commits)
  /\ RollbackMatch(messages[commits[commit_index]][1]) = None
  /\ extract_relnotes(messages[commits[commit_index]], is_major) = None
  /\ Visit
  /\ UNCHANGED <<relnotes, rolled_back_commits, note_commits>>

\* line 84
ReturnNotes ==
  /\ wpc = "loop"
  /\ commit_index > Len(commits)
  /\ wpc' = "done"
  /\ UNCHANGED <<walkInputs, commit_index, relnotes, rolled_back_commits, note_commits,
                 visited_rolled_back, notWalk>>

----------------------------------------------------------------------------
(* Claims about get_relnotes_between *)



\* The first line is 'Automated rollback of commit <id>' and the id ends there.
RollsBack(lines, id) ==
  /\ StartsWith(lines[1], <<"A", "u", "t", "o", "m", "a", "t", "e", "d", " ", "r", "o", "l", "l", "b", "a", "c", "k", " ", "o", "f", " ", "c", "o", "m", "m", "i", "t", " ">> \o id)
  /\ At(lines[1], Len(<<"A", "u", "t", "o", "m", "a", "t", "e", "d", " ", "r", "o", "l", "l", "b", "a", "c", "k", " ", "o", "f", " ", "c", "o", "m", "m", "i", "t", " ">>) + Len(id) + 1) \notin HexDigits

IsRollback(lines) ==
  /\ StartsWith(lines[1], <<"A", "u", "t", "o", "m", "a", "t", "e", "d", " ", "r", "o", "l", "l", "b", "a", "c", "k", " ", "o", "f", " ", "c", "o", "m", "m", "i", "t", " ">>)
  /\ At(lines[1], Len(<<"A", "u", "t", "o", "m", "a", "t", "e", "d", " ", "r", "o", "l", "l", "b", "a", "c", "k", " ", "o", "f", " ", "c", "o", "m", "m", "i", "t", " ">>) + 1) \in HexDigits

\* The pairs of walk positions <<r, c>>: the commit at r is a rollback of the commit
\* at c and comes before it in walk order.
RollbackPairs ==
  {p \in (1..Len(commits)) \X (1..Len(commits)) :
     /\ p[1] < p[2]
     /\ commits # << <<>> >>
     /\ RollsBack(messages[commits[p[1]]], commits[p[2]])}

\* C1 as stated: a rollback commit R that comes before the commit C it rolls back
\* in walk order contributes no note, and neither does C, whatever else the range
\* holds.
C1_RollbackPairSilent ==
  wpc = "done" =>
    \A p \in RollbackPairs :
      commits[p[1]] \notin Range(note_commits) /\ commits[p[2]] \notin Range(note_commits)

\* C1 as amended: a rollback commit R that comes before the commit C it rolls back
\* in walk order contributes no note; C contributes none either, provided R's own
\* id was not in RollbackSet when R was visited (R was not itself rolled back by a
\* rollback walked before it, which makes the walk skip R unread).
C1_LiveRollbackPairSilent ==
  wpc = "done" =>
    \A p \in RollbackPairs :
      /\ commits[p[1]] \notin Range(note_commits)
      /\ commits[p[1]] \notin visited_rolled_back =>
           commits[p[2]] \notin Range(note_commits)

\* A rollback that was read, of a commit that would have given a note, in a range
\* that gave another note.
C1_Witness ==
  /\ wpc = "done"
  /\ note_commits # <<>>
  /\ \E p \in RollbackPairs :
       /\ commits[p[1]] \notin visited_rolled_back
       /\ ~IsRollback(messages[commits[p[2]]])
       /\ extract_relnotes(messages[commits[p[2]]], is_major) # None

\* C2: RollbackSet only grows during the walk, and the result holds no note from a
\* commit whose id was in RollbackSet when it was visited, nor from a commit whose
\* first line matches 'Automated rollback of commit <hex-id>'.
C2_RollbackSetGuards ==
  /\ [][rolled_back_commits \subseteq rolled_back_commits']_vars
  /\ [](/\ Len(note_commits) = Len(relnotes)
        /\ \A c \in Range(note_commits) :
             c \notin visited_rolled_back /\ ~IsRollback(messages[c]))

\* The walk has skipped a rolled-back commit and returned a note.
C2_Witness ==
  /\ wpc = "done"
  /\ relnotes # <<>>
  /\ visited_rolled_back # {}
  /\ \E c \in Range(commits) \ visited_rolled_back : IsRollback(messages[c])

----------------------------------------------------------------------------
(* __main__, lines 190-213: the notes of the range that the last release does    *)
(* not have, oldest first, printed one per line                                 *)

MaxNotes == 3

NoteTexts == {<<"A">>, <<"B">>, <<"C">>}

\* line 195: note not in last_release_relnotes
IsNew(note, last) == note \notin last

\* lines 194-196: the list comprehension
RECURSIVE FilterNotes(_, _)
FilterNotes(notes, last) ==
  IF notes = <<>> THEN <<>>
  ELSE (IF IsNew(Head(notes), last) THEN <<Head(notes)>> ELSE <<>>)
       \o FilterNotes(Tail(notes), last)

\* line 199: list.reverse()
ReverseListMutant(notes) == notes

RECURSIVE ReverseList(_)
ReverseList(notes) ==
  IF notes = <<>> THEN <<>> ELSE Append(ReverseList(Tail(notes)), Head(notes))

DedupIdle ==
  /\ cur_release_relnotes = <<>>
  /\ last_release_relnotes = {}
  /\ filtered_relnotes = <<>>
  /\ printed = <<>>
  /\ dpc = "idle"

\* lines 190-193: what the two walks returned
InitDedup ==
  /\ cur_release_relnotes \in SeqsUpTo(NoteTexts, MaxNotes)
  /\ last_release_relnotes \in SUBSET NoteTexts
  /\ filtered_relnotes = <<>>
  /\ printed = <<>>
  /\ dpc = "filter"

\* lines 194-196
Filter ==
  /\ dpc = "filter"
  /\ filtered_relnotes' = FilterNotes(cur_release_relnotes, last_release_relnotes)
  /\ dpc' = "reverse"
  /\ UNCHANGED <<cur_release_relnotes, last_release_relnotes, printed, notDedup>>

\* line 199
Reverse ==
  /\ dpc = "reverse"
  /\ filtered_relnotes' = ReverseList(filtered_relnotes)
  /\ dpc' = "print"
  /\ UNCHANGED <<cur_release_relnotes, last_release_relnotes, printed, notDedup>>

\* lines 212-213: print("+", note) for each note
PrintFlat ==
  /\ dpc = "print"
  /\ printed' = [i \in 1..Len(filtered_relnotes) |-> <<"+", " ">> \o filtered_relnotes[i]]
  /\ dpc' = "printed"
  /\ UNCHANGED <<cur_release_relnotes, last_release_relnotes, filtered_relnotes, notDedup>>

----------------------------------------------------------------------------
(* Claims about the deduplication *)

Reversed(s) == [i \in 1..Len(s) |-> s[Len(s) + 1 - i]]

Count(s, x) == Cardinality({i \in 1..Len(s) : s[i] = x})

PrintedNotes == [i \in 1..Len(printed) |-> Drop(printed[i], 2)]

\* C6: the printed note list is exactly the notes of the current range that equal no
\* note of the prior release, in the reverse of their walk order; filtering then
\* reversing gives what reversing then filtering gives, and a note that is not a
\* prior note is printed as often as the range holds it.
C6_DedupChronological ==
  dpc = "printed" =>
    /\ PrintedNotes =
         Reversed(SelectSeq(cur_release_relnotes, LAMBDA n : n \notin last_release_relnotes))
    /\ PrintedNotes =
         SelectSeq(Reversed(cur_release_relnotes), LAMBDA n : n \notin last_release_relnotes)
    /\ \A n \in NoteTexts :
         Count(PrintedNotes, n) =
           IF n \in last_release_relnotes THEN 0 ELSE Count(cur_release_relnotes, n)
    /\ \A i \in 1..Len(printed) : StartsWith(printed[i], <<"+", " ">>)

\* Two different notes are printed and a third was dropped as a prior note.
C6_Witness ==
  /\ dpc = "printed"
  /\ Len(printed) >= 2
  /\ printed[1] # printed[2]
  /\ Len(printed) < Len(cur_release_relnotes)

----------------------------------------------------------------------------
(* get_label and get_categorized_relnotes *)

MaxCategorized == 3

GENERAL == <<"G", "e", "n", "e", "r", "a", "l">>

\* what reaches get_categorized_relnotes: notes of extract_relnotes, among them the
\* empty fallback note of a commit whose subject line is only a version marker
CategorizedNotes == {<<"F", "o", "o">>, <<"B", "a", "r", " ", "(", "#", "7", ")">>, <<"B", "a", "z", "(", "#", "1", "2", ")">>, <<>>}

\* the label names of the issue tracker's answer
LabelResponses == {<<>>, <<<<"b", "u", "g">>>>, <<<<"b", "u", "g">>, <<"t", "e", "a", "m", "-", "C", "o", "r", "e">>, <<"t", "e", "a", "m", "-", "X">>>>, <<<<"t", "e", "a", "m", "-", "X">>>>}

\* lines 104-108
RECURSIVE get_label(_)
get_label(names) ==
  IF names = <<>> THEN None
  ELSE IF Contains(Head(names), <<"t", "e", "a", "m", "-">>) THEN Strip(Head(names))
  ELSE get_label(Tail(names))

\* line 118: re.sub(r"\(|\#|\)", "", issue_id.group(0).strip())
IssueNumber(ref) == SelectSeq(Strip(ref), LAMBDA c : c \notin {"(", "#", ")"})

\* lines 125-128: the dict, as its items in insertion order
AppendTo(dict, category, note) ==
  IF \E i \in 1..Len(dict) : dict[i][1] = category
  THEN [i \in 1..Len(dict) |->
          IF dict[i][1] = category THEN <<category, Append(dict[i][2], note)>> ELSE dict[i]]
  ELSE Append(dict, <<category, <<note>>>>)

\* line 130: dict(sorted(categorized_relnotes.items()))
RECURSIVE SortedItems(_)
SortedItems(dict) ==
  IF dict = <<>> THEN <<>>
  ELSE LET least == CHOOSE i \in 1..Len(dict) :
                      \A j \in 1..Len(dict) : j = i \/ StrLess(dict[i][1], dict[j][1])
       IN <<dict[least]>> \o
          SortedItems([k \in 1..(Len(dict) - 1) |-> IF k < least THEN dict[k] ELSE dict[k + 1]])

CategorizeIdle ==
  /\ filtered_notes = <<>>
  /\ note_index = 0
  /\ categorized_relnotes = <<>>
  /\ label_requests = <<>>
  /\ categorized = <<>>
  /\ cpc = "idle"

\* line 113
InitCategorize ==
  /\ filtered_notes \in SeqsUpTo(CategorizedNotes, MaxCategorized)
  /\ note_index = 1
  /\ categorized_relnotes = <<>>
  /\ label_requests = <<>>
  /\ categorized = <<>>
  /\ cpc = "loop"

AtNote == cpc = "loop" /\ note_index <= Len(filtered_notes)

\* line 115: a blank note has no last word
RaiseIndexError ==
  /\ AtNote
  /\ Split(Strip(filtered_notes[note_index])) = <<>>
  /\ cpc' = "raised"
  /\ UNCHANGED <<filtered_notes, note_index, categorized_relnotes, label_requests,
                 categorized, notCategorize>>

LastWord(note) == Split(Strip(note))[Len(Split(Strip(note)))]

\* lines 115-128, no issue reference: no call of get_label
FileUnderGeneral ==
  /\ AtNote
  /\ Split(Strip(filtered_notes[note_index])) # <<>>
  /\ IssueId(LastWord(filtered_notes[note_index])) = None
  /\ categorized_relnotes' =
       AppendTo(categorized_relnotes, GENERAL, filtered_notes[note_index])
  /\ note_index' = note_index + 1
  /\ UNCHANGED <<filtered_notes, label_requests, categorized, cpc, notCategorize>>

\* lines 115-128, an issue reference: get_label asks the issue tracker
FileUnderLabel ==
  /\ AtNote
  /\ Split(Strip(filtered_notes[note_index])) # <<>>
  /\ IssueId(LastWord(filtered_notes[note_index])) # None
  /\ \E names \in LabelResponses :
       LET category == get_label(names)
       IN categorized_relnotes' =
            AppendTo(categorized_relnotes,
                     IF category = None THEN GENERAL ELSE RemoveAll(category, <<"t", "e", "a", "m", "-">>),
                     filtered_notes[note_index])
  /\ label_requests' =
       Append(label_requests, IssueNumber(IssueId(LastWord(filtered_notes[note_index]))))
  /\ note_index' = note_index + 1
  /\ UNCHANGED <<filtered_notes, categorized, cpc, notCategorize>>

\* line 130
ReturnCategorized ==
  /\ cpc = "loop"
  /\ note_index > Len(filtered_notes)
  /\ categorized' = SortedItems(categorized_relnotes)
  /\ cpc' = "done"
  /\ UNCHANGED <<filtered_notes, note_index, categorized_relnotes, label_requests,
                 notCategorize>>

----------------------------------------------------------------------------
(* Claims about get_categorized_relnotes *)

\* C7: for any list of notes none of which ends with an issue reference
\* '(#<digits>)', get_categorized_relnotes returns a mapping whose only category is
\* 'General', with all the input notes in their order, and get_label is not called
\* (for no note at all the mapping is read as allowed to be empty).
C7_AllGeneral ==
  (cpc # "loop" /\ \A i \in 1..Len(filtered_notes) : IssueRefOf(filtered_notes[i]) = None) =>
    /\ cpc = "done"
    /\ label_requests = <<>>
    /\ categorized =
         IF filtered_notes = <<>> THEN <<>> ELSE << <<<<"G", "e", "n", "e", "r", "a", "l">>, filtered_notes>> >>

----------------------------------------------------------------------------
(* get_external_authors_between *)

MaxRange == 2

GOOGLE == <<"@", "g", "o", "o", "g", "l", "e", ".", "c", "o", "m">>

CO_AUTHORED_BY == <<"C", "o", "-", "a", "u", "t", "h", "o", "r", "e", "d", "-", "b", "y", ":", " ">>

People ==
  {[name |-> <<"A", "n", "n">>, email |-> <<"a", "@", "g", "o", "o", "g", "l", "e", ".", "c", "o", "m">>],
   [name |-> <<"a", "n", "n">>, email |-> <<"n", "@", "x", ".", "o", "r", "g">>],
   [name |-> <<"B", "o", "b">>, email |-> <<"b", "@", "x", ".", "o", "r", "g">>],
   [name |-> <<"E", "v", "e">>, email |-> <<"e", "@", "g", "o", "o", "g", "l", "e", ".", "c", "o", "m", ".", "a", "u">>],
   [name |-> <<"A", "l", " ", "L", "i">>, email |-> <<"l", "@", "x", ".", "o", "r", "g">>]}

\* a commit without a Co-authored-by trailer
NoCoauthor == [name |-> <<>>, email |-> <<>>]

\* git(): the output stripped and split at line breaks
RECURSIVE DropBlankHead(_)
DropBlankHead(lines) ==
  IF lines # <<>> /\ Strip(Head(lines)) = <<>> THEN DropBlankHead(Tail(lines)) ELSE lines

RECURSIVE DropBlankTail(_)
DropBlankTail(lines) ==
  IF lines # <<>> /\ Strip(lines[Len(lines)]) = <<>>
  THEN DropBlankTail(SubSeq(lines, 1, Len(lines) - 1)) ELSE lines

git(lines) ==
  LET kept == DropBlankTail(DropBlankHead(lines))
  IN IF kept = <<>> THEN << <<>> >>
     ELSE [i \in 1..Len(kept) |->
             IF i = 1 /\ i = Len(kept) THEN Strip(kept[i])
             ELSE IF i = 1 THEN LStrip(kept[i])
             ELSE IF i = Len(kept) THEN RStrip(kept[i])
             ELSE kept[i]]

\* line 137: --format=%aN|%aE, a line for each commit
AuthorLog(people) == git([i \in 1..Len(people) |-> people[i].name \o <<"|">> \o people[i].email])

\* lines 143-145: --format=%(trailers:key=Co-authored-by), for each commit its
\* trailers and an empty line
RECURSIVE TrailerLines(_)
TrailerLines(people) ==
  IF people = <<>> THEN <<>>
  ELSE (IF Head(people) = NoCoauthor THEN <<>>
        ELSE <<CO_AUTHORED_BY \o Head(people).name \o <<" ", "<">> \o Head(people).email \o <<">">>>>)
       \o << <<>> >> \o TrailerLines(Tail(people))

TrailerLog(people) == git(TrailerLines(people))

\* line 139: author.partition("|")[0].rstrip()
BeforeBar(line) ==
  LET bars == {i \in 1..Len(line) : line[i] = "|"}
  IN RStrip(IF bars = {} THEN line
            ELSE SubSeq(line, 1, (CHOOSE i \in bars : \A j \in bars : i <= j) - 1))

\* line 140
IsGoogleAuthor(line) == EndsWith(line, GOOGLE)

\* line 149: re.search("@google.com", coauthor), the dot matching any character
IsGoogleCoauthor(line) ==
  \E i \in 1..(Len(line) - 10) :
    SubSeq(line, i, i + 6) = <<"@", "g", "o", "o", "g", "l", "e">> /\ SubSeq(line, i + 8, i + 10) = <<"c", "o", "m">>

\* line 151: re.sub(r"Co-authored-by: |<.*?>", "", coauthor)
RECURSIVE SubTrailer(_)
SubTrailer(s) ==
  IF s = <<>> THEN <<>>
  ELSE IF StartsWith(s, CO_AUTHORED_BY) THEN SubTrailer(Drop(s, Len(CO_AUTHORED_BY)))
  ELSE IF Head(s) = "<" /\ \E i \in 2..Len(s) : s[i] = ">"
       THEN SubTrailer(Drop(s, CHOOSE i \in 2..Len(s) :
                                 s[i] = ">" /\ \A j \in 2..(i - 1) : s[j] # ">"))
  ELSE <<Head(s)>> \o SubTrailer(Tail(s))

\* lines 147-152
RECURSIVE Coauthors(_)
Coauthors(lines) ==
  IF lines = <<>> THEN <<>>
  ELSE (IF Head(lines) # <<>> /\ ~IsGoogleCoauthor(Head(lines))
        THEN <<Join(Split(SubTrailer(Head(lines))), <<" ">>)>> ELSE <<>>)
       \o Coauthors(Tail(lines))

\* key=str.casefold
CaseFold(s) == Lower(s)

\* line 153: sorted(..., key=str.casefold) of a set; names with equal keys come in
\* the set's iteration order, which any order can be
SortedOrders(names) ==
  {order \in [1..Cardinality(names) -> names] :
     /\ \A i, j \in 1..Cardinality(names) : i # j => order[i] # order[j]
     /\ \A i \in 1..(Cardinality(names) - 1) :
          ~StrLess(CaseFold(order[i + 1]), CaseFold(order[i]))}

AuthorsIdle ==
  /\ range_authors = <<>>
  /\ range_coauthors = <<>>
  /\ author_log = <<>>
  /\ trailer_log = <<>>
  /\ authors = {}
  /\ coauthors = <<>>
  /\ sorted_names = <<>>
  /\ external_authors = <<>>
  /\ apc = "idle"

\* the commits of the range: each has an author and at most one co-author here
InitAuthors ==
  /\ \E n \in 0..MaxRange :
       /\ range_authors \in [1..n -> People]
       /\ range_coauthors \in [1..n -> People \cup {NoCoauthor}]
  /\ author_log = <<>>
  /\ trailer_log = <<>>
  /\ authors = {}
  /\ coauthors = <<>>
  /\ sorted_names = <<>>
  /\ external_authors = <<>>
  /\ apc = "authors"

\* lines 137-140
CollectAuthors ==
  /\ apc = "authors"
  /\ author_log' = AuthorLog(range_authors)
  /\ authors' = {BeforeBar(AuthorLog(range_authors)[i]) :
                   i \in {k \in 1..Len(AuthorLog(range_authors)) :
                            ~IsGoogleAuthor(AuthorLog(range_authors)[k])}}
  /\ apc' = "coauthors"
  /\ UNCHANGED <<range_authors, range_coauthors, trailer_log, coauthors, sorted_names,
                 external_authors, notAuthors>>

\* lines 143-152
CollectCoauthors ==
  /\ apc = "coauthors"
  /\ trailer_log' = TrailerLog(range_coauthors)
  /\ coauthors' = Coauthors(TrailerLog(range_coauthors))
  /\ apc' = "join"
  /\ UNCHANGED <<range_authors, range_coauthors, author_log, authors, sorted_names,
                 external_authors, notAuthors>>

\* line 153
ReturnAuthors ==
  /\ apc = "join"
  /\ sorted_names' \in SortedOrders(authors \cup Range(coauthors))
  /\ external_authors' = Join(sorted_names', <<",", " ">>)
  /\ apc' = "done"
  /\ UNCHANGED <<range_authors, range_coauthors, author_log, trailer_log, authors,
                 coauthors, notAuthors>>

----------------------------------------------------------------------------
(* Claims about get_external_authors_between *)

\* the names of the authors and co-authors of the range whose email address does
\* not end with '@google.com'
ExternalNames ==
  {p.name : p \in {q \in Range(range_authors) \cup (Range(range_coauthors) \ {NoCoauthor}) :
                     ~EndsWith(q.email, <<"@", "g", "o", "o", "g", "l", "e", ".", "c", "o", "m">>)}}

\* C8: a name is in the acknowledgement list exactly when it is the name of an
\* author or a co-author of the range whose email address does not end with
\* '@google.com'; names that differ only in case are both kept, each name appears
\* once, and the list is sorted without regard to case (the empty line git prints
\* for an empty range is no name).
C8_ExternalNames ==
  apc = "done" =>
    /\ Range(sorted_names) \ {<<>>} = ExternalNames
    /\ \A i, j \in 1..Len(sorted_names) : i # j => sorted_names[i] # sorted_names[j]
    /\ \A i \in 1..(Len(sorted_names) - 1) :
         ~StrLess(Lower(sorted_names[i + 1]), Lower(sorted_names[i]))
    /\ external_authors = Join(sorted_names, <<",", " ">>)

----------------------------------------------------------------------------
(* __main__: the release, the last release, the report *)

RELEASE == <<"r", "e", "l", "e", "a", "s", "e", "-">>

\* git describe --tags exits non-zero when no tag can be reached
DescribeFails == <<"<CalledProcessError>">>

HeadRefs == {<<"r", "e", "l", "e", "a", "s", "e", "-", "1", ".", "0", ".", "1">>, <<"r", "e", "l", "e", "a", "s", "e", "-", "2", ".", "0", ".", "0", "r", "c", "1">>, <<"r", "e", "l", "e", "a", "s", "e", "-", "1", ".", "0", ".", "0", "-", "p", "r", "e">>, <<"m", "a", "i", "n">>}

TagNames == {<<"1", ".", "0", ".", "0">>, <<"1", ".", "0", ".", "1">>, <<"2", ".", "0", ".", "0">>, <<"3", ".", "0", ".", "0">>, <<"1", ".", "0", ".", "0", "-", "p", "r", "e">>}

\* git describe --tags: the tag HEAD is at, or the nearest tag and the distance
DescribeOutputs(existing) == existing \cup {t \o <<"-", "1", "-", "g", "a", "b">> : t \in existing}

\* line 163: re.sub(r"rc\d", "", s)
RECURSIVE SubRc(_)
SubRc(s) ==
  IF s = <<>> THEN <<>>
  ELSE IF StartsWith(s, <<"r", "c">>) /\ At(s, 3) \in Digits THEN SubRc(Drop(s, 3))
  ELSE <<Head(s)>> \o SubRc(Tail(s))

\* line 171: re.fullmatch(r"\d+.0.0", s), each dot matching any character
IsMajor(s) ==
  /\ Len(s) >= 5
  /\ \A i \in 1..(Len(s) - 4) : s[i] \in Digits
  /\ s[Len(s) - 2] = "0"
  /\ s[Len(s)] = "0"

\* list.sort() of strings
RECURSIVE SortStrings(_)
SortStrings(list) ==
  IF list = <<>> THEN <<>>
  ELSE LET least == CHOOSE i \in 1..Len(list) :
                      /\ \A j \in 1..Len(list) : ~StrLess(list[j], list[i])
                      /\ \A j \in 1..(i - 1) : list[j] # list[i]
       IN <<list[least]>> \o
          SortStrings([k \in 1..(Len(list) - 1) |-> IF k < least THEN list[k] ELSE list[k + 1]])

SetToSeq(set) == CHOOSE s \in [1..Cardinality(set) -> set] : Range(s) = set

\* git("tag", "--sort=refname")
TagLog(existing) == IF existing = {} THEN << <<>> >> ELSE SortStrings(SetToSeq(existing))

\* line 173: "pre" not in tag
KeepsTag(tag) == ~Contains(tag, <<"p", "r", "e">>)

\* list.index(x)
IndexOf(list, x) == (CHOOSE i \in 1..Len(list) : list[i] = x /\ \A j \in 1..(i - 1) : list[j] # x) - 1

\* list[i], a negative i counting from the end
Item(list, i) == IF i >= 0 THEN list[i + 1] ELSE list[Len(list) + i + 1]

\* lines 175-177
LastRelease(kept, current) ==
  LET sorted == SortStrings(Append(kept, current))
  IN Item(sorted, IndexOf(sorted, current) - 1)

MainIdle ==
  /\ head_ref = <<>>
  /\ describe = <<>>
  /\ repo_tags = {}
  /\ current_release = None
  /\ is_major_main = FALSE
  /\ tags = <<>>
  /\ last_release = None
  /\ stdout = <<>>
  /\ exit_status = None
  /\ mpc = "idle"

InitMain ==
  /\ head_ref \in HeadRefs
  /\ repo_tags \in SUBSET TagNames
  /\ describe \in DescribeOutputs(repo_tags) \cup {DescribeFails}
  /\ current_release = None
  /\ is_major_main = FALSE
  /\ tags = <<>>
  /\ last_release = None
  /\ stdout = <<>>
  /\ exit_status = None
  /\ mpc = "start"

repository == <<head_ref, describe, repo_tags>>

\* lines 160-163
ResolveFromBranch ==
  /\ mpc = "start"
  /\ StartsWith(head_ref, RELEASE)
  /\ current_release' = SubRc(Drop(head_ref, Len(RELEASE)))
  /\ mpc' = "resolved"
  /\ UNCHANGED <<repository, is_major_main, tags, last_release, stdout, exit_status, notMain>>

\* lines 164-166
ResolveFromTag ==
  /\ mpc = "start"
  /\ ~StartsWith(head_ref, RELEASE)
  /\ describe # DescribeFails
  /\ current_release' = describe
  /\ mpc' = "resolved"
  /\ UNCHANGED <<repository, is_major_main, tags, last_release, stdout, exit_status, notMain>>

\* lines 167-169
NotAReleaseBranch ==
  /\ mpc = "start"
  /\ ~StartsWith(head_ref, RELEASE)
  /\ describe = DescribeFails
  /\ stdout' = Append(stdout, <<"E", "r", "r", "o", "r", ":", " ", "N", "o", "t", " ", "a", " ", "r", "e", "l", "e", "a", "s", "e", " ", "b", "r", "a", "n", "c", "h", ".">>)
  /\ exit_status' = 1
  /\ mpc' = "exited"
  /\ UNCHANGED <<repository, current_release, is_major_main, tags, last_release, notMain>>

\* lines 171-177
FindLastRelease ==
  /\ mpc = "resolved"
  /\ current_release \notin Range(SelectSeq(TagLog(repo_tags), KeepsTag))
  /\ is_major_main' = IsMajor(current_release)
  /\ tags' = SortStrings(Append(SelectSeq(TagLog(repo_tags), KeepsTag), current_release))
  /\ last_release' = LastRelease(SelectSeq(TagLog(repo_tags), KeepsTag), current_release)
  /\ mpc' = "last"
  /\ UNCHANGED <<repository, current_release, stdout, exit_status, notMain>>

\* lines 171-174 and 178-180
ReleaseTagExists ==
  /\ mpc = "resolved"
  /\ current_release \in Range(SelectSeq(TagLog(repo_tags), KeepsTag))
  /\ is_major_main' = IsMajor(current_release)
  /\ tags' = SelectSeq(TagLog(repo_tags), KeepsTag)
  /\ stdout' = Append(stdout, <<"E", "r", "r", "o", "r", ":", " ", "r", "e", "l", "e", "a", "s", "e", " ", "t", "a", "g", " ", "a", "l", "r", "e", "a", "d", "y", " ", "e", "x", "i", "s", "t", "s">>)
  /\ exit_status' = 1
  /\ mpc' = "exited"
  /\ UNCHANGED <<repository, current_release, last_release, notMain>>

\* lines 185-186
PrintBaseline ==
  /\ mpc = "last"
  /\ last_release \in repo_tags
  /\ stdout' = Append(stdout, <<"B", "a", "s", "e", "l", "i", "n", "e", ":", " ", " ">> \o CommitIds[1])
  /\ mpc' = "baseline"
  /\ UNCHANGED <<repository, current_release, is_major_main, tags, last_release,
                 exit_status, notMain>>

\* line 185: git merge-base exits non-zero for a name that is no ref, and
\* check_output raises
MergeBaseFails ==
  /\ mpc = "last"
  /\ last_release \notin repo_tags
  /\ exit_status' = 1
  /\ mpc' = "exited"
  /\ UNCHANGED <<repository, current_release, is_major_main, tags, last_release, stdout,
                 notMain>>

\* lines 190-219: the notes and the acknowledgements, whose contents the other
\* specifications are about
PrintReport ==
  /\ mpc = "baseline"
  /\ stdout' = stdout \o <<<<"R", "e", "l", "e", "a", "s", "e", " ", "N", "o", "t", "e", "s", ":">>, <<"A", "c", "k", "n", "o", "w", "l", "e", "d", "g", "e", "m", "e", "n", "t", "s", ":">>>>
  /\ exit_status' = 0
  /\ mpc' = "done"
  /\ UNCHANGED <<repository, current_release, is_major_main, tags, last_release, notMain>>

----------------------------------------------------------------------------
(* Claims about __main__ *)

Unresolvable == ~StartsWith(head_ref, <<"r", "e", "l", "e", "a", "s", "e", "-">>) /\ describe = DescribeFails

OnlyDiagnostic ==
  /\ mpc \in {"start", "resolved", "exited"}
  /\ \A i \in 1..Len(stdout) : StartsWith(stdout[i], <<"E", "r", "r", "o", "r", ":">>)
  /\ mpc = "exited" => (exit_status = 1 /\ Len(stdout) = 1)

\* C9 as stated: whenever a tag named current_release already exists in the
\* repository, or the current release cannot be resolved, the program prints a
\* diagnostic and exits with status 1 before it prints the baseline, a note or the
\* acknowledgements.
C9_ExitsBeforeOutput ==
  (Unresolvable \/ (current_release # None /\ current_release \in repo_tags)) =>
    OnlyDiagnostic

\* The part of C9 the code keeps: whenever a tag named current_release whose name
\* does not contain 'pre' exists in the repository, or the current release cannot
\* be resolved, the program prints a diagnostic and exits with status 1 before it
\* prints the baseline, a note or the acknowledgements.
C9_ReleaseTagExits ==
  (Unresolvable \/ (/\ current_release # None
                    /\ current_release \in repo_tags
                    /\ ~Contains(current_release, <<"p", "r", "e">>))) =>
    OnlyDiagnostic

\* The program has exited on a release whose tag exists.
C9_Witness ==
  /\ mpc = "exited"
  /\ current_release \in repo_tags
  /\ exit_status = 1
  /\ stdout = <<<<"E", "r", "r", "o", "r", ":", " ", "r", "e", "l", "e", "a", "s", "e", " ", "t", "a", "g", " ", "a", "l", "r", "e", "a", "d", "y", " ", "e", "x", "i", "s", "t", "s">>>>

ReleaseTags == {t \in repo_tags : ~Contains(t, <<"p", "r", "e">>)}

\* C10: whenever current_release is not an existing tag, last_release is an existing
\* non-prerelease tag that sorts strictly before current_release with no other such
\* tag between them, and never a tag that sorts after current_release (where no tag
\* sorts before current_release, only the latter is asked).
C10_ImmediatePredecessor ==
  (mpc \in {"last", "baseline", "done"} /\ current_release \notin repo_tags) =>
    IF \E t \in ReleaseTags : StrLess(t, current_release)
    THEN /\ last_release \in ReleaseTags
         /\ StrLess(last_release, current_release)
         /\ ~\E t \in ReleaseTags : StrLess(last_release, t) /\ StrLess(t, current_release)
    ELSE ~(last_release \in repo_tags /\ StrLess(current_release, last_release))

----------------------------------------------------------------------------
(* Specifications *)

IdleButExtract == WalkIdle /\ DedupIdle /\ CategorizeIdle /\ AuthorsIdle /\ MainIdle

IdleButWalk == ExtractIdle /\ DedupIdle /\ CategorizeIdle /\ AuthorsIdle /\ MainIdle

IdleButDedup == ExtractIdle /\ WalkIdle /\ CategorizeIdle /\ AuthorsIdle /\ MainIdle

IdleButCategorize == ExtractIdle /\ WalkIdle /\ DedupIdle /\ AuthorsIdle /\ MainIdle

IdleButAuthors == ExtractIdle /\ WalkIdle /\ DedupIdle /\ CategorizeIdle /\ MainIdle

IdleButMain == ExtractIdle /\ WalkIdle /\ DedupIdle /\ CategorizeIdle /\ AuthorsIdle

InitExtract ==
  /\ commit_message_lines \in Messages
  /\ is_major_release \in BOOLEAN
  /\ relnote = None
  /\ epc = "call"

NextExtract == Extract

InitSpecExtract == InitExtract /\ IdleButExtract

SpecExtract == InitSpecExtract /\ [][NextExtract]_vars

InitFallback ==
  /\ commit_message_lines \in FallbackMessages
  /\ is_major_release \in BOOLEAN
  /\ relnote = None
  /\ epc = "call"

NextFallback == Extract

InitSpecFallback == InitFallback /\ IdleButExtract

SpecFallback == InitSpecFallback /\ [][NextFallback]_vars

NextWalk ==
  \/ ReturnEmpty
  \/ StartWalk
  \/ SkipRolledBack
  \/ RecordRollback
  \/ AppendNote
  \/ NoNote
  \/ ReturnNotes

InitSpecWalk == InitWalk /\ IdleButWalk

SpecWalk == InitSpecWalk /\ [][NextWalk]_vars

InitSpecDedup == InitDedup /\ IdleButDedup

NextDedup ==
  \/ Filter
  \/ Reverse
  \/ PrintFlat

SpecDedup == InitSpecDedup /\ [][NextDedup]_vars

InitSpecCategorize == InitCategorize /\ IdleButCategorize

NextCategorize ==
  \/ RaiseIndexError
  \/ FileUnderGeneral
  \/ FileUnderLabel
  \/ ReturnCategorized

SpecCategorize == InitSpecCategorize /\ [][NextCategorize]_vars

InitSpecAuthors == InitAuthors /\ IdleButAuthors

NextAuthors ==
  \/ CollectAuthors
  \/ CollectCoauthors
  \/ ReturnAuthors

SpecAuthors == InitSpecAuthors /\ [][NextAuthors]_vars

InitSpecMain == InitMain /\ IdleButMain

NextMain ==
  \/ ResolveFromBranch
  \/ ResolveFromTag
  \/ NotAReleaseBranch
  \/ FindLastRelease
  \/ ReleaseTagExists
  \/ PrintBaseline
  \/ MergeBaseFails
  \/ PrintReport

SpecMain == InitSpecMain /\ [][NextMain]_vars

=============================================================================
